---- MODULE Spec2Model ----
(***************************************************************************)
(* The form submission scripts of the repository:                          *)
(*   src/static/script.js  registers three submit listeners on the form    *)
(*                         'prediction-form' (multipart, JSON, third);     *)
(*   src/unnamed/part_000  registers one (the error-element variant).      *)
(* A page loads one of the two files.  Each listener runs synchronously up *)
(* to its fetch() and resumes when the request settles.  Between the       *)
(* settling of fetch() and of the body read the handler touches no shared  *)
(* state, so the two awaits are taken as one step: the request's outcome.  *)
(***************************************************************************)
EXTENDS Integers, Sequences, FiniteSets

VARIABLES
    page,        \* the script file the page has loaded
    form,        \* the form's entries: <<[key, value], ...>>
    body,        \* the body of the JSON listener's latest request
    resultText,  \* textContent of #prediction-result
    errorText,   \* textContent of #error-result
    loading,     \* 'loading' is in the classList of #result
    rejected,    \* some handler's promise rejected (an exception escaped it)
    inflight,    \* requests issued and not settled: [sub, h]
    submits,     \* submit events so far
    sent,        \* fetch('/predict') calls so far
    last,        \* the step taken last: [h, o]
    watch,       \* whether `last` is kept
    audit,       \* whether the submission log below is kept
    cur,         \* log: the submission in progress
    memo,        \* log: the latest submission that ran alone, uniformly answered
    prev         \* log: the one before memo

vars == <<page, form, body, resultText, errorText, loading, rejected, inflight, submits,
          sent, last, watch, audit, cur, memo, prev>>

\* Submit events of one behaviour.
MaxSubmits == 2

----------------------------------------------------------------------------
(* JavaScript values *)

Undefined == [t |-> "undefined", n |-> 0, s |-> ""]
Num(k) == [t |-> "number", n |-> k, s |-> ""]
Str(x) == [t |-> "string", n |-> 0, s |-> x]

Digits == <<"0", "1", "2", "3", "4", "5", "6", "7", "8", "9">>

RECURSIVE NumStr(_)
\* Number to decimal text, of a natural number.
NumStr(k) ==
    IF k < 10 THEN Digits[k + 1]
    ELSE NumStr(k \div 10) \o Digits[(k % 10) + 1]

\* ${v} in a template literal.
ToString(v) ==
    CASE v.t = "number" -> NumStr(v.n)
      [] v.t = "string" -> v.s
      [] OTHER -> "undefined"

\* The truthiness test of `if (v)` and `v || w`.
Truthy(v) ==
    CASE v.t = "number" -> v.n # 0
      [] v.t = "string" -> v.s # ""
      [] OTHER -> FALSE

\* v ?? w in place of v || w: only undefined gives way to w.
OrElseNullish(v, w) == IF v # Undefined THEN v ELSE w

\* v || w
OrElse(v, w) == IF Truthy(v) THEN v ELSE w

\* s contains t as a substring.
Contains(s, t) ==
    \E i \in 1..(Len(s) - Len(t) + 1) : SubSeq(s, i, i + Len(t) - 1) = t

----------------------------------------------------------------------------
(* Responses *)

Predictions == {Undefined, Num(0), Num(87), Str("")}
Errors == {Undefined, Str(""), Str("model unavailable")}

\* The objects a JSON body of the endpoint parses to.
Data == [prediction : Predictions, error : Errors]

JsonValue(v) ==
    IF v.t = "string" THEN "\"" \o v.s \o "\"" ELSE NumStr(v.n)

\* The JSON text of an object of Data.
Stringify(d) ==
    LET p == IF d.prediction = Undefined THEN ""
             ELSE "\"prediction\": " \o JsonValue(d.prediction)
        e == IF d.error = Undefined THEN ""
             ELSE "\"error\": " \o JsonValue(d.error)
        sep == IF p # "" /\ e # "" THEN ", " ELSE ""
    IN  "{" \o p \o sep \o e \o "}"

HtmlBody == "<html>Internal Server Error</html>"

Bodies == {Stringify(d) : d \in Data} \cup {HtmlBody}

\* response.json() on each body text: whether it resolves, and to what.
ParseTable ==
    [raw \in Bodies |->
        IF \E d \in Data : Stringify(d) = raw
        THEN [ok |-> TRUE, data |-> CHOOSE d \in Data : Stringify(d) = raw]
        ELSE [ok |-> FALSE, data |-> [prediction |-> Undefined,
                                      error |-> Undefined]]]

\* response.json() resolves on this body text.
Parses(raw) == ParseTable[raw].ok

\* What response.json() resolves to.
JsonParse(raw) == ParseTable[raw].data

Statuses == {200, 500}

\* response.ok
Ok(status) == status >= 200 /\ status <= 299

NoOutcome == [kind |-> "none", status |-> 0, readfail |-> FALSE, raw |-> ""]
Mixed == [kind |-> "mixed", status |-> 0, readfail |-> FALSE, raw |-> ""]
NetFail == [kind |-> "netfail", status |-> 0, readfail |-> FALSE, raw |-> ""]

\* A response whose body arrives, and one whose body read fails.
Responses ==
    [kind : {"response"}, status : Statuses, readfail : {FALSE}, raw : Bodies]
    \cup [kind : {"response"}, status : Statuses, readfail : {TRUE}, raw : {""}]

\* How a request can settle.
Outcomes == {NetFail} \cup Responses

\* The messages of the errors the browser raises.
FetchFailure == "Failed to fetch"
BodyFailure == "network error"
JsonSyntaxError == "Unexpected token < in JSON at position 0"

----------------------------------------------------------------------------
(* The page, as the handlers see it *)

Dom == [result |-> resultText, error |-> errorText, loading |-> loading,
        rejected |-> rejected]

\* The outcome of a try block: it ran to its end, or threw an Error.
Normal(dom) == [threw |-> FALSE, msg |-> "", dom |-> dom]
Throw(msg, dom) == [threw |-> TRUE, msg |-> msg, dom |-> dom]

----------------------------------------------------------------------------
(* script.js, first listener: multipart body, 'Processing...' text *)

MultipartSubmit(dom) == [dom EXCEPT !.result = "Processing..."]

MultipartTry(o, dom) ==
    IF o.kind = "netfail" THEN Throw(FetchFailure, dom)
    ELSE IF ~Ok(o.status) THEN
        IF o.readfail THEN Throw(BodyFailure, dom)
        ELSE Throw("HTTP error! Status: " \o NumStr(o.status)
                   \o ", Message: " \o o.raw, dom)
    ELSE IF o.readfail THEN Throw(BodyFailure, dom)
    ELSE IF ~Parses(o.raw) THEN Throw(JsonSyntaxError, dom)
    ELSE LET data == JsonParse(o.raw) IN
        IF data.prediction # Undefined
        THEN Normal([dom EXCEPT
                 !.result = "Prediction: " \o ToString(data.prediction)])
        ELSE Normal([dom EXCEPT
                 !.result = "Error: " \o ToString(
                     OrElse(data.error, Str("No prediction available")))])

\* A catch block that logs and writes nothing.
MultipartCatchSilent(t) == t.dom

MultipartCatch(t) == [t.dom EXCEPT !.result = "Error: " \o t.msg]

MultipartHandler(o, dom) ==
    LET t == MultipartTry(o, dom) IN
    IF t.threw THEN MultipartCatch(t) ELSE t.dom

----------------------------------------------------------------------------
(* Numbers of the JSON listener: parseFloat, ||, JSON.stringify.  A number *)
(* is NaN, an infinity, or (-1)^neg * m * 10^e.                            *)

NaN == [k |-> "nan", neg |-> FALSE, m |-> 0, e |-> 0]
Infinite(neg) == [k |-> "inf", neg |-> neg, m |-> 0, e |-> 0]
Finite(neg, m, e) == [k |-> "num", neg |-> neg, m |-> m, e |-> e]

\* The character of s at i, "" past its ends.
Char(s, i) == IF i >= 1 /\ i <= Len(s) THEN SubSeq(s, i, i) ELSE ""

IsDigit(c) == \E d \in 1..10 : Digits[d] = c

DigitVal(c) == (CHOOSE d \in 1..10 : Digits[d] = c) - 1

RECURSIVE SkipWhite(_, _)
\* The index of the first character of s at or after i that is not white space.
SkipWhite(s, i) ==
    IF Char(s, i) \in {" ", "\t", "\n"} THEN SkipWhite(s, i + 1) ELSE i

RECURSIVE ScanDigits(_, _, _, _)
\* The digits of s from i on, added to m: the value, their count, the index
\* after them.
ScanDigits(s, i, m, n) ==
    IF IsDigit(Char(s, i))
    THEN ScanDigits(s, i + 1, m * 10 + DigitVal(Char(s, i)), n + 1)
    ELSE [m |-> m, n |-> n, i |-> i]

\* The count of decimal digits of a natural number.
NumDigits(m) == Len(NumStr(m))

\* m * 10^e as a double: an infinity past the largest double, 0 below the
\* smallest.
Rounded(neg, m, e) ==
    IF m = 0 THEN Finite(neg, 0, 0)
    ELSE IF NumDigits(m) + e > 309 THEN Infinite(neg)
    ELSE IF NumDigits(m) + e < -324 THEN Finite(neg, 0, 0)
    ELSE Finite(neg, m, e)

\* parseFloat(s): the longest prefix of s, after white space, that is a
\* decimal literal.
ParseFloat(s) ==
    LET i0 == SkipWhite(s, 1)
        neg == Char(s, i0) = "-"
        i1 == IF Char(s, i0) \in {"-", "+"} THEN i0 + 1 ELSE i0
        int == ScanDigits(s, i1, 0, 0)
        frac == IF Char(s, int.i) = "."
                THEN ScanDigits(s, int.i + 1, int.m, 0)
                ELSE [m |-> int.m, n |-> 0, i |-> int.i]
        eAt == frac.i
        eNeg == Char(s, eAt + 1) = "-"
        e1 == IF Char(s, eAt + 1) \in {"-", "+"} THEN eAt + 2 ELSE eAt + 1
        exp == IF Char(s, eAt) \in {"e", "E"}
               THEN ScanDigits(s, e1, 0, 0)
               ELSE [m |-> 0, n |-> 0, i |-> eAt]
        power == IF exp.n = 0 THEN 0 ELSE IF eNeg THEN 0 - exp.m ELSE exp.m
    IN  IF i1 + 7 <= Len(s) /\ SubSeq(s, i1, i1 + 7) = "Infinity"
        THEN Infinite(neg)
        ELSE IF int.n + frac.n = 0 THEN NaN
        ELSE Rounded(neg, frac.m, power - frac.n)

\* x || 0 of a number: NaN and zero give way to 0.
NumberOrZero(x) ==
    IF x.k = "nan" \/ (x.k = "num" /\ x.m = 0) THEN Finite(FALSE, 0, 0)
    ELSE x

RECURSIVE Zeros(_)
Zeros(n) == IF n <= 0 THEN "" ELSE "0" \o Zeros(n - 1)

RECURSIVE Stripped(_, _)
\* m * 10^e with no trailing zero in m.
Stripped(m, e) ==
    IF m # 0 /\ m % 10 = 0 THEN Stripped(m \div 10, e + 1)
    ELSE [m |-> m, e |-> e]

\* String(x) of a number.
NumberText(x) ==
    IF x.k = "nan" THEN "NaN"
    ELSE IF x.k = "inf" THEN (IF x.neg THEN "-Infinity" ELSE "Infinity")
    ELSE IF x.m = 0 THEN "0"
    ELSE LET n == Stripped(x.m, x.e)
             d == NumStr(n.m)
             k == Len(d)
             point == k + n.e   \* digits before the decimal point
             sign == IF x.neg THEN "-" ELSE ""
         IN  IF n.e >= 0 /\ point <= 21 THEN sign \o d \o Zeros(n.e)
             ELSE IF point > 0 /\ point <= 21
                 THEN sign \o SubSeq(d, 1, point) \o "." \o SubSeq(d, point + 1, k)
             ELSE IF point > -6 /\ point <= 0
                 THEN sign \o "0." \o Zeros(0 - point) \o d
             ELSE sign \o SubSeq(d, 1, 1)
                  \o (IF k > 1 THEN "." \o SubSeq(d, 2, k) ELSE "")
                  \o (IF point - 1 < 0 THEN "e-" \o NumStr(1 - point)
                      ELSE "e+" \o NumStr(point - 1))

\* JSON.stringify of a number: a number that is not finite becomes null.
JsonNumber(x) == IF x.k = "num" THEN NumberText(x) ELSE "null"

\* JSON.stringify of a string with nothing to escape.
JsonString(x) == "\"" \o x \o "\""

\* jsonData[key] as JSON.stringify writes it.
JsonMember(entry) ==
    JsonString(entry.key) \o ":"
    \o (IF entry.key = "name" THEN JsonString(entry.value)
        ELSE JsonNumber(NumberOrZero(ParseFloat(entry.value))))

RECURSIVE JsonMembers(_)
JsonMembers(entries) ==
    IF entries = <<>> THEN ""
    ELSE JsonMember(Head(entries))
         \o (IF Tail(entries) = <<>> THEN "" ELSE ",")
         \o JsonMembers(Tail(entries))

\* JSON.stringify(jsonData), jsonData built from the form's entries.
JsonBody(entries) == "{" \o JsonMembers(entries) \o "}"

----------------------------------------------------------------------------
(* script.js, second listener: JSON body, loading indicator *)

JsonSubmit(dom) ==
    [dom EXCEPT !.result = "Processing...", !.loading = TRUE]

JsonTry(o, dom) ==
    IF o.kind = "netfail" THEN Throw(FetchFailure, dom)
    ELSE IF ~Ok(o.status) THEN Throw("HTTP Error: " \o NumStr(o.status), dom)
    ELSE IF o.readfail THEN Throw(BodyFailure, dom)
    ELSE IF ~Parses(o.raw) THEN Throw(JsonSyntaxError, dom)
    ELSE LET data == JsonParse(o.raw) IN
        IF Truthy(data.prediction)
        THEN Normal([dom EXCEPT
                 !.result = "Predicted Final Marks: "
                            \o ToString(data.prediction)])
        ELSE Normal([dom EXCEPT
                 !.result = "Error: " \o ToString(
                     OrElse(data.error, Str("Unexpected error occurred")))])

JsonCatch(t) ==
    [t.dom EXCEPT
        !.result = "An error occurred while processing your request."]

\* A finally block that leaves the class where it is.
JsonFinallyKeeps(dom) == dom

JsonFinally(dom) == [dom EXCEPT !.loading = FALSE]

\* The class removed at the end of the try block, with no finally.
JsonHandlerNoFinally(o, dom) ==
    LET t == JsonTry(o, dom) IN
    IF t.threw THEN JsonCatch(t) ELSE JsonFinally(t.dom)

JsonHandler(o, dom) ==
    LET t == JsonTry(o, dom) IN
    JsonFinally(IF t.threw THEN JsonCatch(t) ELSE t.dom)

----------------------------------------------------------------------------
(* script.js, third listener: multipart body, no text set on submit *)

ThirdSubmit(dom) == dom

ThirdTry(o, dom) ==
    IF o.kind = "netfail" THEN Throw(FetchFailure, dom)
    ELSE IF ~Ok(o.status) THEN
        IF o.readfail THEN Throw(BodyFailure, dom)
        ELSE Throw("HTTP error! Status: " \o NumStr(o.status)
                   \o ", Message: " \o o.raw, dom)
    ELSE IF o.readfail THEN Throw(BodyFailure, dom)
    ELSE IF ~Parses(o.raw) THEN Throw(JsonSyntaxError, dom)
    ELSE LET data == JsonParse(o.raw) IN
        IF data.prediction # Undefined
        THEN Normal([dom EXCEPT
                 !.result = "Prediction: " \o ToString(data.prediction)])
        ELSE Normal([dom EXCEPT
                 !.result = "Error: " \o ToString(
                     OrElse(data.error, Str("No prediction available")))])

ThirdCatch(t) == [t.dom EXCEPT !.result = "Error: " \o t.msg]

ThirdHandler(o, dom) ==
    LET t == ThirdTry(o, dom) IN
    IF t.threw THEN ThirdCatch(t) ELSE t.dom

----------------------------------------------------------------------------
(* part_000: multipart body, separate error element *)

ErrorElementSubmit(dom) == [dom EXCEPT !.result = "", !.error = ""]

ErrorElementTry(o, dom) ==
    IF o.kind = "netfail" THEN Throw(FetchFailure, dom)
    ELSE IF o.readfail THEN Throw(BodyFailure, dom)
    ELSE IF ~Parses(o.raw) THEN Throw(JsonSyntaxError, dom)
    ELSE LET data == JsonParse(o.raw) IN
        IF ~Ok(o.status)
        THEN Throw(ToString(OrElse(data.error,
                 Str("HTTP error! status: " \o NumStr(o.status)))), dom)
        ELSE IF data.prediction # Undefined
        THEN Normal([dom EXCEPT
                 !.result = "Prediction: " \o ToString(data.prediction)])
        ELSE Normal([dom EXCEPT
                 !.error = "Error: " \o ToString(
                     OrElse(data.error, Str("No prediction available")))])

ErrorElementCatch(t) == [t.dom EXCEPT !.error = "Error: " \o t.msg]

\* response.json() awaited before the try block.
ErrorElementUnguarded(o, dom) ==
    IF o.kind = "response" /\ (o.readfail \/ ~Parses(o.raw))
    THEN [dom EXCEPT !.rejected = TRUE]
    ELSE LET t == ErrorElementTry(o, dom) IN
         IF t.threw THEN ErrorElementCatch(t) ELSE t.dom

ErrorElementHandler(o, dom) ==
    LET t == ErrorElementTry(o, dom) IN
    IF t.threw THEN ErrorElementCatch(t) ELSE t.dom

----------------------------------------------------------------------------
(* The listeners of a page *)

Pages == {"script.js", "part_000"}

\* The submit listeners, in the order the file registers them.
Listeners(p) ==
    IF p = "script.js" THEN <<"multipart", "json", "third">>
    ELSE <<"errorElement">>

\* A listener up to its fetch().
SubmitSync(h, dom) ==
    CASE h = "multipart" -> MultipartSubmit(dom)
      [] h = "json" -> JsonSubmit(dom)
      [] h = "third" -> ThirdSubmit(dom)
      [] h = "errorElement" -> ErrorElementSubmit(dom)

\* A listener from the settling of its request to its end.
Handler(h, o, dom) ==
    CASE h = "multipart" -> MultipartHandler(o, dom)
      [] h = "json" -> JsonHandler(o, dom)
      [] h = "third" -> ThirdHandler(o, dom)
      [] h = "errorElement" -> ErrorElementHandler(o, dom)

RECURSIVE Dispatch(_, _)
\* The submit event: each listener in turn, up to its fetch().
Dispatch(hs, dom) ==
    IF hs = <<>> THEN dom
    ELSE Dispatch(Tail(hs), SubmitSync(Head(hs), dom))

\* The requests one submit event issues: one fetch() per listener.
Issued(p, sub) == {[sub |-> sub, h |-> Listeners(p)[i]] :
                       i \in DOMAIN Listeners(p)}

----------------------------------------------------------------------------
(* The submission log: what a submission that ran alone was answered and   *)
(* what the page showed when its last request had settled                  *)

NoMemo == [resp |-> NoOutcome, result |-> "", error |-> ""]

\* The answers of the submission so far, with one more.
Merge(resp, o) ==
    IF o.kind # "response" THEN Mixed
    ELSE IF resp = NoOutcome \/ resp = o THEN o
    ELSE Mixed

LogSubmit ==
    /\ cur' = IF audit THEN [clean |-> inflight = {}, resp |-> NoOutcome]
              ELSE cur
    /\ UNCHANGED <<memo, prev>>

LogSettle(o, left, d) ==
    IF ~audit THEN UNCHANGED <<cur, memo, prev>>
    ELSE LET resp == Merge(cur.resp, o) IN
        /\ cur' = [cur EXCEPT !.resp = resp]
        /\ IF left = {} /\ cur.clean /\ resp # Mixed
           THEN /\ memo' = [resp |-> resp, result |-> d.result,
                            error |-> d.error]
                /\ prev' = memo
           ELSE UNCHANGED <<memo, prev>>

----------------------------------------------------------------------------
(* The state machine *)

\* The texts a user types into each field of the form.
FieldTexts(key) ==
    CASE key = "name" -> {"Alice", "12"}
      [] key = "hours" -> {"87", "3.50", "", "abc", "12abc", "-4", "0", " 7",
                           ".5", "2e1", "1e-7", "1e999", "Infinity"}
      [] key = "marks" -> {"", "87"}

\* The form as the page shows it first.
DefaultForm == <<[key |-> "name", value |-> "Alice"],
                 [key |-> "hours", value |-> "87"],
                 [key |-> "marks", value |-> ""]>>

InitPage ==
    /\ page \in Pages
    /\ form = DefaultForm
    /\ body = ""
    /\ resultText = ""
    /\ errorText = ""
    /\ loading = FALSE
    /\ rejected = FALSE
    /\ inflight = {}
    /\ submits = 0
    /\ sent = 0
    /\ last = [h |-> "none", o |-> NoOutcome]
    /\ cur = [clean |-> FALSE, resp |-> NoOutcome]
    /\ memo = NoMemo
    /\ prev = NoMemo

Init == InitPage /\ watch = TRUE /\ audit = FALSE

InitAudit == InitPage /\ watch = TRUE /\ audit = TRUE

\* The page alone, with no record of the steps taken.
InitBare == InitPage /\ watch = FALSE /\ audit = FALSE

\* The user submits the form: every listener runs up to its fetch().
Submit ==
    /\ submits < MaxSubmits
    /\ LET d == Dispatch(Listeners(page), Dom)
           new == Issued(page, submits + 1)
       IN  /\ resultText' = d.result
           /\ errorText' = d.error
           /\ loading' = d.loading
           /\ rejected' = d.rejected
           /\ inflight' = inflight \cup new
           /\ sent' = sent + Cardinality(new)
    /\ body' = IF \E i \in DOMAIN Listeners(page) : Listeners(page)[i] = "json"
               THEN JsonBody(form) ELSE body
    /\ submits' = submits + 1
    /\ last' = IF watch THEN [h |-> "submit", o |-> NoOutcome] ELSE last
    /\ LogSubmit
    /\ UNCHANGED <<page, form, watch, audit>>

\* Request r settles with outcome o and its listener runs to its end.
Settle(r, o) ==
    /\ r \in inflight
    /\ last' = IF watch THEN [h |-> r.h, o |-> o] ELSE last
    /\ inflight' = inflight \ {r}
    /\ LET d == Handler(r.h, o, Dom) IN
           /\ resultText' = d.result
           /\ errorText' = d.error
           /\ loading' = d.loading
           /\ rejected' = d.rejected
           /\ LogSettle(o, inflight \ {r}, d)
    /\ UNCHANGED <<page, form, body, submits, sent, watch, audit>>

\* The request fails at network level: fetch() rejects.
NetworkFailure == \E r \in inflight : Settle(r, NetFail)

\* A response arrives.
Response == \E r \in inflight : \E o \in Responses : Settle(r, o)

Next == Submit \/ NetworkFailure \/ Response

Spec == Init /\ [][Next]_vars

\* The same page with the submission log kept.
SpecAudit == InitAudit /\ [][Next]_vars

\* The user types text into field i of the form.
Edit(i, text) ==
    /\ form' = [form EXCEPT ![i].value = text]
    /\ last' = IF watch THEN [h |-> "edit", o |-> NoOutcome] ELSE last
    /\ UNCHANGED <<page, body, resultText, errorText, loading, rejected,
                   inflight, submits, sent, watch, audit, cur, memo, prev>>

Typing == \E i \in DOMAIN form : \E text \in FieldTexts(form[i].key) :
              Edit(i, text)

\* The user filling in the form and submitting it, no request settling.
NextForm == Typing \/ Submit

SpecForm == Init /\ [][NextForm]_vars

Settling == NetworkFailure \/ Response

\* The page when the network settles every request it is given: a request
\* in flight is not left unsettled for ever.
SpecFair == InitBare /\ [][Next]_vars /\ WF_vars(Settling)

----------------------------------------------------------------------------
(* Properties.  `last` names the step just taken, so a property of the     *)
(* form  last = ... => P  states P of the state a handler leaves behind.   *)

\* The step just taken was a listener handling the settling of its request.
Handled == last.h \notin {"none", "submit", "edit"}

\* The step just taken handled a response whose body parsed as JSON.
HandledJson ==
    /\ Handled
    /\ last.o.kind = "response"
    /\ ~last.o.readfail
    /\ Parses(last.o.raw)

LastData == JsonParse(last.o.raw)

\* The element the listener of the step just taken writes its messages to.
Shown == IF last.h = "errorElement" THEN errorText ELSE resultText

PredictionLabel ==
    IF last.h = "json" THEN "Predicted Final Marks: " ELSE "Prediction: "

FallbackText ==
    IF last.h = "json" THEN "Unexpected error occurred"
    ELSE "No prediction available"

GenericFailure == "An error occurred while processing your request."

\* C1: after a listener has handled an ok response whose JSON body has a
\* prediction field, whatever its value, the result element's text is the
\* listener's label followed by that value.
PredictionDisplayed ==
    (HandledJson /\ Ok(last.o.status) /\ LastData.prediction # Undefined)
        => resultText = PredictionLabel \o ToString(LastData.prediction)

\* C2: after a listener has handled a response with a non-OK status, the text
\* it displays contains the server's error string or the status code, and the
\* status code when the body does not parse as JSON.
NonOkShowsErrorOrStatus ==
    (Handled /\ last.o.kind = "response" /\ ~Ok(last.o.status))
        => /\ \/ /\ HandledJson
                 /\ Truthy(LastData.error)
                 /\ Contains(Shown, ToString(LastData.error))
              \/ Contains(Shown, NumStr(last.o.status))
           /\ (~last.o.readfail /\ ~Parses(last.o.raw))
                  => Contains(Shown, NumStr(last.o.status))

\* C3: after a listener has handled a network failure of its fetch, its
\* message element shows an error message, the result text is not
\* 'Processing...', and the JSON listener has removed the 'loading' class.
NetworkFailureShown ==
    (Handled /\ last.o.kind = "netfail")
        => /\ Shown \in {"Error: " \o FetchFailure, GenericFailure}
           /\ resultText # "Processing..."
           /\ (last.h = "json" => ~loading)

\* C3 case: the JSON listener has handled a network failure.
NetworkFailureWitness ==
    /\ last.h = "json"
    /\ last.o.kind = "netfail"
    /\ resultText = GenericFailure
    /\ ~loading

\* C4: when an execution of the JSON listener has finished, on whichever
\* path, the 'loading' class is not on the result container.
LoadingCleared == last.h = "json" => ~loading

\* C4 case: the JSON listener has finished on a JSON parse failure.
LoadingClearedWitness ==
    /\ last.h = "json"
    /\ last.o.kind = "response"
    /\ Ok(last.o.status)
    /\ ~last.o.readfail
    /\ ~Parses(last.o.raw)
    /\ resultText = GenericFailure
    /\ ~loading

\* The request of the step just taken failed in one of the ways named:
\* network, body read, non-2xx status, malformed JSON, no prediction field.
Failure ==
    /\ Handled
    /\ \/ last.o.kind = "netfail"
       \/ last.o.readfail
       \/ ~Ok(last.o.status)
       \/ ~Parses(last.o.raw)
       \/ LastData.prediction = Undefined

\* C5: no handler's promise rejects, and after a failure of any kind the
\* listener's message element shows a message.
FailuresCaught ==
    /\ ~rejected
    /\ Failure => Shown \notin {"", "Processing..."}

\* C5 case: the body read of a non-OK response has failed in the
\* error-element listener.
FailuresCaughtWitness ==
    /\ last.h = "errorElement"
    /\ last.o.kind = "response"
    /\ ~Ok(last.o.status)
    /\ last.o.readfail
    /\ errorText = "Error: " \o BodyFailure
    /\ ~rejected

\* C6: the requests sent are as many as the submit events.
OneRequestPerSubmit == sent = submits

\* C7: two submissions that each ran alone and were answered alike left the
\* same text in the result and the error element.
IdempotentDisplay ==
    (prev.resp # NoOutcome /\ prev.resp = memo.resp)
        => (prev.result = memo.result /\ prev.error = memo.error)

\* C8 as stated: after an ok response whose JSON body has no prediction
\* field, the message is built from the error field when it is present and
\* from the fallback string otherwise.
ErrorFieldWhenPresent ==
    (HandledJson /\ Ok(last.o.status) /\ LastData.prediction = Undefined)
        => Shown = "Error: " \o (IF LastData.error # Undefined
                                 THEN ToString(LastData.error)
                                 ELSE FallbackText)

\* C8 as amended: the message is built from the error field when it is
\* present and truthy (not the empty string), and from the fallback string
\* otherwise; the text written carries no prediction label.
ErrorFieldWhenTruthy ==
    (HandledJson /\ Ok(last.o.status) /\ LastData.prediction = Undefined)
        => /\ Shown = "Error: " \o (IF Truthy(LastData.error)
                                    THEN ToString(LastData.error)
                                    ELSE FallbackText)
           /\ ~Contains(Shown, PredictionLabel)

\* C8 case: an ok response with an empty error string and no prediction.
ErrorFieldWitness ==
    /\ HandledJson
    /\ Ok(last.o.status)
    /\ LastData = [prediction |-> Undefined, error |-> Str("")]
    /\ Shown = "Error: " \o FallbackText

\* C9: when the submit event has been dispatched and its requests issued,
\* the result element shows 'Processing...'.
ProcessingOnSubmit == last.h = "submit" => resultText = "Processing..."

BlankDom == [result |-> "", error |-> "", loading |-> FALSE,
             rejected |-> FALSE]

\* What the page shows when the request of the step just taken is the only
\* one of a submission on a blank page.
Alone == Handler(last.h, last.o, Dispatch(Listeners(page), BlankDom))

\* C10: once every request has been handled, the text shown is that of the
\* response handled last and nothing else.
LastHandledWins ==
    (inflight = {} /\ Handled)
        => (resultText = Alone.result /\ errorText = Alone.error)

\* The page is at rest: no request in flight, no processing text, no
\* loading indicator.
AtRest ==
    /\ inflight = {}
    /\ resultText # "Processing..."
    /\ ~loading

NeverPredictionAndError ==
    (page = "part_000" /\ inflight = {})
        => ~(resultText # "" /\ errorText # "")

\* C14: on the page of script.js the 'loading' class is on the result
\* container exactly when a request of the JSON listener is in flight.
LoadingIffInFlight ==
    page = "script.js" => (loading <=> \E r \in inflight : r.h = "json")

RECURSIVE ExpectedMembers(_)
\* The members C12 describes: 'name' as its text, every other field as the
\* number its text parses to, 0 when it parses to none.
ExpectedMembers(entries) ==
    IF entries = <<>> THEN ""
    ELSE LET entry == Head(entries)
             x == ParseFloat(entry.value)
         IN  JsonString(entry.key) \o ":"
             \o (IF entry.key = "name" THEN JsonString(entry.value)
                 ELSE IF x.k = "nan" THEN "0"
                 ELSE NumberText(NumberOrZero(x)))
             \o (IF Tail(entries) = <<>> THEN "" ELSE ",")
             \o ExpectedMembers(Tail(entries))

\* C12: the body the JSON listener sends holds every field of the form,
\* 'name' with its text and every other field as a number: the number its
\* text parses to, or 0.
PayloadAsDescribed ==
    (page = "script.js" /\ last.h = "submit")
        => body = "{" \o ExpectedMembers(form) \o "}"

====
